---- MODULE Spec2Model ----
(***************************************************************************)
(* Queue admission engine of nextcut-backend-v2.                           *)
(*                                                                         *)
(* The committed database state is the Queue table and the queue flags of  *)
(* the User table.  Every request is served by one of a fixed set of       *)
(* request slots (Procs); the slots interleave at the granularity of the   *)
(* statements they send to the store.  A prisma.$transaction([...]) batch  *)
(* is a PostgreSQL transaction at READ COMMITTED: a statement sees the     *)
(* committed rows and the transaction's own writes, waits for a row that   *)
(* another open transaction has written, and its writes become visible to  *)
(* the others at commit.  The last statement of a batch is one step with   *)
(* the commit that follows it.                                             *)
(***************************************************************************)
EXTENDS Integers, FiniteSets, Sequences, TLC

VARIABLES queue, users, nextId, pc, req, tx, last, lastCommit

vars == <<queue, users, nextId, pc, req, tx, last, lastCommit>>

(***************************************************************************)
(* Bounds of the model.                                                    *)
(***************************************************************************)
MaxId == 2        \* Queue rows created in one behaviour
MaxDistance == 11 \* largest distance of a barber, in hundredths of a kilometre

\* the request slots and the rows of User
Procs == DOMAIN pc
Users == DOMAIN users

(***************************************************************************)
(* Tables.                                                                 *)
(***************************************************************************)
NULL == 0

Barbers == {1, 2}           \* rows of Barber; never created or deleted here

BarberInputs == {0, 1, 2, 3}     \* 0: barberId absent from the body; 3: no such barber
UserInputs == {1, 2, 3}          \* 3: a token whose user row does not exist
ServiceInputs == {"", "haircut", "shave"}

validServices == {"haircut", "beard", "haircut+beard"}

\* model Queue: userId is @unique, id is the autoincrement key
QueueRow(id, b, u, s, t) ==
    [id |-> id, barberId |-> b, userId |-> u, service |-> s, enteredAt |-> t]

\* model User: the two queue columns, with their defaults
UserDefault == [inQueue |-> FALSE, queuedBarberId |-> NULL]

NoReq == [op |-> "none", userId |-> 0, barberId |-> 0, service |-> "", found |-> 0,
          foundBarber |-> 0]
NoTx == [del |-> {}, ins |-> {}, usr |-> FALSE]
NoLast == [op |-> "none", userId |-> 0, barberId |-> 0, service |-> "",
           status |-> 0, msg |-> "", prev |-> NULL]

RowsOfUser(u) == {e \in queue : e.userId = u}
RowsOfBarber(b) == {e \in queue : e.barberId = b}

Init ==
    /\ queue = {}
    /\ users = [u \in {1, 2} |-> UserDefault]
    /\ nextId = 1
    /\ pc = [p \in {"r1", "r2"} |-> "idle"]
    /\ req = [p \in {"r1", "r2"} |-> NoReq]
    /\ tx = [p \in {"r1", "r2"} |-> NoTx]
    /\ last = NoLast
    /\ lastCommit = [u \in {1, 2} |-> "none"]

(***************************************************************************)
(* The store: row locks and constraints.                                   *)
(***************************************************************************)
\* enteredAt @default(now()): time is counted in the instants that the rows
\* in the table (committed or inserted by an open transaction) tell apart.
\* Time never runs backwards, so a new row gets the instant of the latest
\* of them, when no time has passed since, or a later one.
Written == queue \cup UNION {tx[q].ins : q \in DOMAIN tx}
Latest == CHOOSE t \in {e.enteredAt : e \in Written} :
              \A e \in Written : e.enteredAt <= t
Now == IF Written = {} THEN {0} ELSE {Latest, Latest + 1}

\* Queue rows that an open transaction other than p's has deleted
LockedRows(p) == UNION {tx[q].del : q \in Procs \ {p}}

\* the User row u carries an uncommitted update of another transaction
UserLockedByOther(p, u) == \E q \in Procs \ {p} : tx[q].usr /\ req[q].userId = u

\* another open transaction has inserted a Queue row for u
PendingInsertByOther(p, u) ==
    \E q \in Procs \ {p} : \E e \in tx[q].ins : e.userId = u

\* userId @unique: the committed rows an insert for u by p collides with
UniqueConflictsOff(p, u) == {}
UniqueConflictsPerBarber(p, u) ==
    {e \in queue : e.userId = u /\ e.barberId = req[p].barberId /\ e.id \notin tx[p].del}
UniqueConflicts(p, u) == {e \in queue : e.userId = u /\ e.id \notin tx[p].del}

\* what p's transaction leaves in Queue when it commits
CommitQueueKeepsDeleted(p) == queue \cup tx[p].ins
CommitQueue(p) == {e \in queue : e.id \notin tx[p].del} \cup tx[p].ins

\* what is left in Queue when p's transaction is rolled back
RollbackQueueKeepsWrites(p) == {e \in queue : e.id \notin tx[p].del} \cup tx[p].ins
RollbackQueue(p) == queue

\* the barber of the row of u that p's transaction deleted, NULL if none
PrevBarber(p) ==
    IF \E e \in queue : e.id \in tx[p].del
    THEN (CHOOSE e \in queue : e.id \in tx[p].del).barberId
    ELSE NULL

\* last is the answer that the latest step sent, NoLast when it sent none;
\* lastCommit[u] is the operation of the latest transaction committed for u.
\* An answer: the HTTP status and message of the route (status 0 and the
\* returned or thrown message where the route is not part of the sources),
\* the barber a successful answer names, the service a join asked for, and
\* the barber the customer was queued at according to the deletes of the
\* transaction
Response(op, u, b, s, status, msg, prev) ==
    [op |-> op, userId |-> u, barberId |-> b, service |-> s, status |-> status,
     msg |-> msg, prev |-> prev]

\* data: { inQueue: false, queuedBarberId: null }
ClearFlagsKeepBarber(row) == [row EXCEPT !.inQueue = FALSE]
ClearFlags(row) == [inQueue |-> FALSE, queuedBarberId |-> NULL]

\* data: { inQueue: true, queuedBarberId: barberId }
MarkFlagsMissing(b) == [inQueue |-> FALSE, queuedBarberId |-> NULL]
MarkFlagsNotInQueue(b) == [inQueue |-> FALSE, queuedBarberId |-> b]
MarkFlags(b) == [inQueue |-> TRUE, queuedBarberId |-> b]

\* a request slot goes back to idle
Release(p) ==
    /\ pc' = [pc EXCEPT ![p] = "idle"]
    /\ req' = [req EXCEPT ![p] = NoReq]
    /\ tx' = [tx EXCEPT ![p] = NoTx]

(***************************************************************************)
(* POST /joinqueue and joinQueue.                                          *)
(***************************************************************************)
\* the checks of the route, in order; "ok" when the body passes
RouteJoinCheckNoService(b, s) ==
    IF b = 0 THEN "Barber ID is required"
    ELSE IF s = "" THEN "Service type is required"
    ELSE "ok"
RouteJoinCheck(b, s) ==
    IF b = 0 THEN "Barber ID is required"
    ELSE IF s = "" THEN "Service type is required"
    ELSE IF s \notin validServices THEN "Invalid service type"
    ELSE "ok"

\* the errors joinQueue throws before its transaction, in order
ServiceJoinCheck(b, s) ==
    IF b \notin Barbers THEN "Barber not found"
    ELSE IF s \notin validServices THEN "Invalid service type"
    ELSE "ok"

\* catch (error) { throw new Error("Failed to join queue") }
JoinCatch(err) == "Failed to join queue"

\* the request (of the user whose id the token carries) is validated,
\* joinQueue looks the barber up (Barber rows are immutable, so the lookup
\* reads the same at any point of this step) and either fails or sends its
\* transaction
PostJoinQueue(p, u, b, s) ==
    /\ pc[p] = "idle"
    /\ nextId <= MaxId
    /\ IF RouteJoinCheck(b, s) # "ok"
       THEN /\ last' = Response("joinQueue", u, NULL, s, 400, RouteJoinCheck(b, s),
                                NULL)
            /\ UNCHANGED <<pc, req, tx>>
       ELSE IF ServiceJoinCheck(b, s) # "ok"
       THEN /\ last' = Response("joinQueue", u, NULL, s, 500,
                                JoinCatch(ServiceJoinCheck(b, s)), NULL)
            /\ UNCHANGED <<pc, req, tx>>
       ELSE /\ pc' = [pc EXCEPT ![p] = "join_deleteMany"]
            /\ req' = [req EXCEPT ![p] = [op |-> "joinQueue", userId |-> u,
                                          barberId |-> b, service |-> s,
                                          found |-> 0, foundBarber |-> 0]]
            /\ last' = NoLast
            /\ UNCHANGED tx
    /\ UNCHANGED <<queue, users, nextId, lastCommit>>

\* 1) prisma.queue.deleteMany({ where: { userId } })
JoinDeleteMany(p) ==
    /\ pc[p] = "join_deleteMany"
    /\ LET u == req[p].userId
           hit == {e.id : e \in RowsOfUser(u)}
       IN /\ hit \cap LockedRows(p) = {}
          /\ tx' = [tx EXCEPT ![p].del = hit]
    /\ pc' = [pc EXCEPT ![p] = "join_resetUser"]
    /\ last' = NoLast
    /\ UNCHANGED <<queue, users, nextId, req, lastCommit>>

\* 2) prisma.user.update({ inQueue: false, queuedBarberId: null });
\*    the update throws when the user row does not exist
JoinResetUserUnchecked(p) ==
    /\ pc[p] = "join_resetUser"
    /\ ~UserLockedByOther(p, req[p].userId)
    /\ tx' = [tx EXCEPT ![p].usr = TRUE]
    /\ pc' = [pc EXCEPT ![p] = "join_create"]
    /\ last' = NoLast
    /\ queue' = RollbackQueue(p)
    /\ UNCHANGED <<users, nextId, req, lastCommit>>
JoinResetUser(p) ==
    /\ pc[p] = "join_resetUser"
    /\ LET u == req[p].userId
       IN IF u \notin Users
          THEN /\ last' = Response("joinQueue", u, NULL, req[p].service, 500,
                                   JoinCatch("Record to update not found"), NULL)
               /\ Release(p)
          ELSE /\ ~UserLockedByOther(p, u)
               /\ tx' = [tx EXCEPT ![p].usr = TRUE]
               /\ pc' = [pc EXCEPT ![p] = "join_create"]
               /\ last' = NoLast
               /\ UNCHANGED req
    /\ queue' = RollbackQueue(p)
    /\ UNCHANGED <<users, nextId, lastCommit>>

\* 3) prisma.queue.create({ data: { barberId, userId, service } }): id and
\*    enteredAt take their defaults; a committed row of the same user that
\*    the transaction has not deleted violates the unique constraint
JoinCreate(p) ==
    /\ pc[p] = "join_create"
    /\ nextId <= MaxId
    /\ LET u == req[p].userId
       IN /\ ~PendingInsertByOther(p, u)
          /\ \A e \in UniqueConflicts(p, u) : e.id \notin LockedRows(p)
          /\ IF UniqueConflicts(p, u) # {}
             THEN /\ last' = Response("joinQueue", u, NULL, req[p].service, 500,
                                      JoinCatch("Unique constraint failed"),
                                      PrevBarber(p))
                  /\ Release(p)
             ELSE /\ \E t \in Now :
                       tx' = [tx EXCEPT ![p].ins =
                                {QueueRow(nextId, req[p].barberId, u,
                                          req[p].service, t)}]
                  /\ pc' = [pc EXCEPT ![p] = "join_markUser"]
                  /\ last' = NoLast
                  /\ UNCHANGED req
    /\ nextId' = nextId + 1
    /\ queue' = RollbackQueue(p)
    /\ UNCHANGED <<users, lastCommit>>

\* 4) prisma.user.update({ inQueue: true, queuedBarberId: barberId }), and
\*    the commit of the batch; the route answers with the created entry
JoinMarkUser(p) ==
    /\ pc[p] = "join_markUser"
    /\ LET u == req[p].userId
           b == req[p].barberId
       IN /\ ~UserLockedByOther(p, u)
          /\ queue' = CommitQueue(p)
          /\ users' = [users EXCEPT ![u] = MarkFlags(b)]
          /\ lastCommit' = [lastCommit EXCEPT ![u] = "join"]
          /\ last' = Response("joinQueue", u, b, req[p].service, 200,
                              "You have joined the queue", PrevBarber(p))
    /\ Release(p)
    /\ UNCHANGED nextId

(***************************************************************************)
(* POST /leavequeue and removeFromQueue.                                   *)
(***************************************************************************)
\* catch (error) { throw new Error("Failed to remove from queue") }
LeaveCatch(err) == "Failed to remove from queue"

\* prisma.queue.findUnique({ where: { userId } }): the committed rows seen
LeaveLookupAny(u) == queue
LeaveLookup(u) == RowsOfUser(u)

\* the lookup; without a row the service returns success: false and the
\* route answers 400 with its message
PostLeaveQueue(p, u) ==
    /\ pc[p] = "idle"
    /\ IF LeaveLookup(u) = {}
       THEN /\ last' = Response("removeFromQueue", u, NULL, "", 400,
                                "User is not in any queue", NULL)
            /\ UNCHANGED <<pc, req>>
       ELSE LET e == CHOOSE e \in LeaveLookup(u) : TRUE
            IN /\ pc' = [pc EXCEPT ![p] = "leave_delete"]
               /\ req' = [req EXCEPT ![p] = [op |-> "removeFromQueue", userId |-> u,
                                             barberId |-> 0, service |-> "",
                                             found |-> e.id,
                                             foundBarber |-> e.barberId]]
               /\ last' = NoLast
    /\ UNCHANGED <<queue, users, nextId, tx, lastCommit>>

\* prisma.queue.delete({ where: { userId } }) throws when no row matches
LeaveDelete(p) ==
    /\ pc[p] = "leave_delete"
    /\ LET u == req[p].userId
           hit == {e.id : e \in RowsOfUser(u)}
       IN /\ hit \cap LockedRows(p) = {}
          /\ IF hit = {}
             THEN /\ last' = Response("removeFromQueue", u, NULL, "", 500,
                                      LeaveCatch("Record to delete does not exist"),
                                      NULL)
                  /\ Release(p)
             ELSE /\ tx' = [tx EXCEPT ![p].del = hit]
                  /\ pc' = [pc EXCEPT ![p] = "leave_update"]
                  /\ last' = NoLast
                  /\ UNCHANGED req
    /\ queue' = RollbackQueue(p)
    /\ UNCHANGED <<users, nextId, lastCommit>>

\* prisma.user.update({ inQueue: false, queuedBarberId: null }) and the
\* commit; the answer names the barber of the row the lookup found
LeaveUpdate(p) ==
    /\ pc[p] = "leave_update"
    /\ LET u == req[p].userId
       IN /\ ~UserLockedByOther(p, u)
          /\ queue' = CommitQueue(p)
          /\ users' = [users EXCEPT ![u] = ClearFlags(users[u])]
          /\ lastCommit' = [lastCommit EXCEPT ![u] = "leave"]
          /\ last' = Response("removeFromQueue", u, req[p].foundBarber, "", 200,
                              "You have been removed from the queue", PrevBarber(p))
    /\ Release(p)
    /\ UNCHANGED nextId

(***************************************************************************)
(* removeUserFromQueue (the barber's removal).                             *)
(***************************************************************************)
\* catch (error) { throw new Error("Failed to remove user from queue") }
RemoveCatch(err) == "Failed to remove user from queue"

\* prisma.queue.findFirst({ where: { barberId, userId } })
RemoveLookupAnyBarber(b, u) == {e \in queue : e.userId = u}
RemoveLookup(b, u) == {e \in queue : e.barberId = b /\ e.userId = u}

RemoveUserFromQueue(p, b, u) ==
    /\ pc[p] = "idle"
    /\ IF RemoveLookup(b, u) = {}
       THEN /\ last' = Response("removeUserFromQueue", u, b, "", 0,
                                "User is not in this barber's queue", NULL)
            /\ UNCHANGED <<pc, req>>
       ELSE LET e == CHOOSE e \in RemoveLookup(b, u) : TRUE
            IN /\ pc' = [pc EXCEPT ![p] = "remove_delete"]
               /\ req' = [req EXCEPT ![p] = [op |-> "removeUserFromQueue",
                                             userId |-> u, barberId |-> b,
                                             service |-> "", found |-> e.id,
                                             foundBarber |-> e.barberId]]
               /\ last' = NoLast
    /\ UNCHANGED <<queue, users, nextId, tx, lastCommit>>

\* where: { id: queueEntry.id }: the row the lookup found, if still there
RemoveTargetWholeLine(p) == RowsOfBarber(req[p].barberId)
RemoveTargetByUser(p) == RowsOfUser(req[p].userId)
RemoveTarget(p) == {e \in queue : e.id = req[p].found}

\* 1) prisma.queue.delete({ where: { id: queueEntry.id } })
RemoveDelete(p) ==
    /\ pc[p] = "remove_delete"
    /\ LET hit == {e.id : e \in RemoveTarget(p)}
       IN /\ hit \cap LockedRows(p) = {}
          /\ IF hit = {}
             THEN /\ last' = Response("removeUserFromQueue", req[p].userId,
                                      req[p].barberId, "", 0,
                                      RemoveCatch("Record to delete does not exist"),
                                      NULL)
                  /\ Release(p)
             ELSE /\ tx' = [tx EXCEPT ![p].del = hit]
                  /\ pc' = [pc EXCEPT ![p] = "remove_update"]
                  /\ last' = NoLast
                  /\ UNCHANGED req
    /\ queue' = RollbackQueue(p)
    /\ UNCHANGED <<users, nextId, lastCommit>>

\* 2) prisma.user.update({ inQueue: false, queuedBarberId: null }) and the
\*    commit
RemoveUpdate(p) ==
    /\ pc[p] = "remove_update"
    /\ LET u == req[p].userId
       IN /\ ~UserLockedByOther(p, u)
          /\ queue' = CommitQueue(p)
          /\ users' = [users EXCEPT ![u] = ClearFlags(users[u])]
          /\ lastCommit' = [lastCommit EXCEPT ![u] = "remove"]
          /\ last' = Response("removeUserFromQueue", u, req[p].barberId, "", 0,
                              "Successfully removed", PrevBarber(p))
    /\ Release(p)
    /\ UNCHANGED nextId

(***************************************************************************)
(* A transaction that the store gives up (connection lost, deadlock        *)
(* victim, crash of the request between two statements): it is rolled      *)
(* back and the catch block of the service rethrows.                       *)
(***************************************************************************)
InTransaction(p) ==
    pc[p] \in {"join_deleteMany", "join_resetUser", "join_create", "join_markUser",
               "leave_delete", "leave_update", "remove_delete", "remove_update"}

TxFail(p) ==
    /\ InTransaction(p)
    /\ queue' = RollbackQueue(p)
    /\ last' = IF req[p].op = "joinQueue"
               THEN Response("joinQueue", req[p].userId, NULL, req[p].service, 500,
                             JoinCatch("store"), PrevBarber(p))
               ELSE IF req[p].op = "removeFromQueue"
               THEN Response("removeFromQueue", req[p].userId, NULL, "", 500,
                             LeaveCatch("store"), PrevBarber(p))
               ELSE Response("removeUserFromQueue", req[p].userId, req[p].barberId, "",
                             0, RemoveCatch("store"), PrevBarber(p))
    /\ Release(p)
    /\ UNCHANGED <<users, nextId, lastCommit>>

(***************************************************************************)
(* Reads of the committed state.                                           *)
(***************************************************************************)
\* getQueue(barberId): findMany({ where: { barberId }, orderBy: { enteredAt:
\* "asc" } }); the store may return rows of equal enteredAt in any order,
\* so this is the set of the lists it can return
getQueue(b) ==
    LET R == RowsOfBarber(b)
        n == Cardinality(R)
    IN {f \in [1..n -> R] :
          /\ \A i, j \in 1..n : i # j => f[i] # f[j]
          /\ \A i, j \in 1..n : i < j => f[i].enteredAt <= f[j].enteredAt}

\* const estimatedWaitMinutes = queuePosition * 15: 15 minutes for each
\* customer ahead
estimatedWaitPerPosition(queuePosition) == (queuePosition + 1) * 15
estimatedWaitMinutes(queuePosition) == queuePosition * 15

NotInQueueStatus ==
    [inQueue |-> FALSE, position |-> NULL, barber |-> NULL, estimatedWait |-> NULL]

\* getUserQueueStatus(userId) on one committed state
getUserQueueStatus(u) ==
    IF ~users[u].inQueue \/ RowsOfUser(u) = {}
    THEN NotInQueueStatus
    ELSE LET Queue == CHOOSE e \in RowsOfUser(u) : TRUE
             queuePosition ==
                 Cardinality({e \in queue : /\ e.barberId = users[u].queuedBarberId
                                            /\ e.enteredAt < Queue.enteredAt})
         IN [inQueue |-> TRUE, position |-> queuePosition + 1,
             barber |-> Queue.barberId,
             estimatedWait |-> estimatedWaitMinutes(queuePosition)]

Next ==
    \/ \E p \in Procs, u \in UserInputs, b \in BarberInputs, s \in ServiceInputs :
          PostJoinQueue(p, u, b, s)
    \/ \E p \in Procs : JoinDeleteMany(p)
    \/ \E p \in Procs : JoinResetUser(p)
    \/ \E p \in Procs : JoinCreate(p)
    \/ \E p \in Procs : JoinMarkUser(p)
    \/ \E p \in Procs, u \in Users : PostLeaveQueue(p, u)
    \/ \E p \in Procs : LeaveDelete(p)
    \/ \E p \in Procs : LeaveUpdate(p)
    \/ \E p \in Procs, b \in Barbers, u \in Users : RemoveUserFromQueue(p, b, u)
    \/ \E p \in Procs : RemoveDelete(p)
    \/ \E p \in Procs : RemoveUpdate(p)
    \/ \E p \in Procs : TxFail(p)

Spec == Init /\ [][Next]_vars

(***************************************************************************)
(* One request at a time, on a table that is already filled.  The rows     *)
(* that exist when the behaviour starts were entered one request at a time *)
(* too, at the instants of Instants: every customer owns at most one of    *)
(* them, and a row with a larger id was not entered earlier.  They carry   *)
(* the ids below 1, in the order of their customers, so that nextId counts *)
(* the rows created in the behaviour.                                      *)
(***************************************************************************)
SeqUsers == {1, 2, 3}
Instants == {0, 1, 2}

Absent == [barberId |-> NULL, enteredAt |-> 0]
Placements(T) == {Absent} \cup [barberId : Barbers, enteredAt : T]

\* the instants in use are told apart by the rows only: none is skipped
Placed(a) == {u \in DOMAIN a : a[u].barberId # NULL}
NoInstantSkipped(a) ==
    \A u \in Placed(a) :
        a[u].enteredAt = 0 \/ \E v \in Placed(a) : a[v].enteredAt = a[u].enteredAt - 1

\* ids are given out in the order of the inserts
EnteredInIdOrder(a) ==
    \A u, v \in Placed(a) : u < v => a[u].enteredAt <= a[v].enteredAt

TableOf(a) ==
    {QueueRow(u - Cardinality(DOMAIN a), a[u].barberId, u, "haircut", a[u].enteredAt) :
        u \in Placed(a)}

\* the states with no request under way whose table is filled with rows of
\* the customers U entered at the instants T
FilledInit(U, T) ==
    \E a \in [U -> Placements(T)] :
        /\ NoInstantSkipped(a)
        /\ EnteredInIdOrder(a)
        /\ queue = TableOf(a)
        /\ users = [u \in U |->
                       IF u \in Placed(a)
                       THEN [inQueue |-> TRUE, queuedBarberId |-> a[u].barberId]
                       ELSE UserDefault]
        /\ nextId = 1
        /\ pc = [p \in {"r1"} |-> "idle"]
        /\ req = [p \in {"r1"} |-> NoReq]
        /\ tx = [p \in {"r1"} |-> NoTx]
        /\ last = NoLast
        /\ lastCommit = [u \in U |-> IF u \in Placed(a) THEN "join" ELSE "none"]

SeqInit == FilledInit(SeqUsers, Instants)

\* the requests of the sequential specification pass the checks of the
\* route and of joinQueue
SeqNext ==
    \/ \E p \in Procs, u \in UserInputs \cap Users, b \in Barbers,
            s \in ServiceInputs \cap validServices : PostJoinQueue(p, u, b, s)
    \/ \E p \in Procs : JoinDeleteMany(p)
    \/ \E p \in Procs : JoinResetUser(p)
    \/ \E p \in Procs : JoinCreate(p)
    \/ \E p \in Procs : JoinMarkUser(p)
    \/ \E p \in Procs, u \in Users : PostLeaveQueue(p, u)
    \/ \E p \in Procs : LeaveDelete(p)
    \/ \E p \in Procs : LeaveUpdate(p)
    \/ \E p \in Procs, b \in Barbers, u \in Users : RemoveUserFromQueue(p, b, u)
    \/ \E p \in Procs : RemoveDelete(p)
    \/ \E p \in Procs : RemoveUpdate(p)
    \/ \E p \in Procs : TxFail(p)

SeqSpec == SeqInit /\ [][SeqNext]_vars

(***************************************************************************)
(* The reads, applied to the filled tables of four customers.              *)
(***************************************************************************)
StatusUsers == {1, 2, 3, 4}
StatusInstants == {0, 1, 2, 3}

StatusInit == FilledInit(StatusUsers, StatusInstants)

\* GET /queue-status: the answer carries the result of getUserQueueStatus
GetQueueStatusClearsFlags(p, u) ==
    /\ pc[p] = "idle"
    /\ last' = [op |-> "getUserQueueStatus", userId |-> u,
                barberId |-> getUserQueueStatus(u).barber, service |-> "",
                status |-> 200, msg |-> "Queue status retrieved successfully",
                prev |-> NULL, queueStatus |-> getUserQueueStatus(u)]
    /\ users' = [users EXCEPT ![u] = ClearFlags(@)]
    /\ UNCHANGED <<queue, nextId, pc, req, tx, lastCommit>>
GetQueueStatus(p, u) ==
    /\ pc[p] = "idle"
    /\ last' = [op |-> "getUserQueueStatus", userId |-> u,
                barberId |-> getUserQueueStatus(u).barber, service |-> "",
                status |-> 200, msg |-> "Queue status retrieved successfully",
                prev |-> NULL, queueStatus |-> getUserQueueStatus(u)]
    /\ UNCHANGED <<queue, users, nextId, pc, req, tx, lastCommit>>

\* the barber's read of the line: one of the lists getQueue can return, or
\* the error of its catch block when the barber does not exist
GetQueue(p, b) ==
    /\ pc[p] = "idle"
    /\ IF b \notin Barbers
       THEN last' = [op |-> "getQueue", userId |-> 0, barberId |-> b, service |-> "",
                     status |-> 0, msg |-> "Failed to get queue", prev |-> NULL,
                     entries |-> <<>>]
       ELSE \E q \in getQueue(b) :
               last' = [op |-> "getQueue", userId |-> 0, barberId |-> b,
                        service |-> "", status |-> 0, msg |-> "", prev |-> NULL,
                        entries |-> q]
    /\ UNCHANGED <<queue, users, nextId, pc, req, tx, lastCommit>>

StatusNext ==
    \/ \E p \in Procs, u \in Users : GetQueueStatus(p, u)
    \/ \E p \in Procs, b \in BarberInputs \ {0} : GetQueue(p, b)

StatusSpec == StatusInit /\ [][StatusNext]_vars

(***************************************************************************)
(* POST /barbers and getBarbersNearby.  Distances and radii are counted in *)
(* hundredths of a kilometre; a request is given by the distance of every  *)
(* barber from the point it names.                                         *)
(***************************************************************************)
Distances == 0 .. MaxDistance
RadiusInputs == {0, 5, 10}       \* 0: radius absent from the body

\* const searchRadius = radius ? parseFloat(radius) : 10
searchRadius(radius) == IF radius = 0 THEN 1000 ELSE radius

\* Math.round(distance * 10) / 10: the nearest tenth of a kilometre, a half
\* going up
RoundToTenth(d) == ((d + 5) \div 10) * 10

\* one element of barbersWithDistance
BarberWithTotalLoad(b, dist) ==
    [id |-> b, distance |-> RoundToTenth(dist[b]),
     queueLength |-> Cardinality(queue),
     estimatedWait |-> Cardinality(queue) * 15]
BarberWithDistance(b, dist) ==
    [id |-> b, distance |-> RoundToTenth(dist[b]),
     queueLength |-> Cardinality(RowsOfBarber(b)),
     estimatedWait |-> Cardinality(RowsOfBarber(b)) * 15]

\* getBarbersNearby: the lists that filter(distance <= radiusKm) and
\* sort(a.distance - b.distance) can return; findMany has no orderBy and
\* the sort is stable, so barbers of equal rounded distance come in the
\* order of the store
getBarbersNearby(dist, radiusKm) ==
    LET near == {b \in Barbers : BarberWithDistance(b, dist).distance <= radiusKm}
        n == Cardinality(near)
    IN {[i \in 1..n |-> BarberWithDistance(f[i], dist)] :
          f \in {g \in [1..n -> near] :
                   /\ \A i, j \in 1..n : i # j => g[i] # g[j]
                   /\ \A i, j \in 1..n :
                         i < j => RoundToTenth(dist[g[i]]) <= RoundToTenth(dist[g[j]])}}

\* the route: 400 without coordinates, else the list of getBarbersNearby
PostBarbers(p, coords, dist, radius) ==
    /\ pc[p] = "idle"
    /\ IF ~coords
       THEN last' = [op |-> "getBarbersNearby", userId |-> 0, barberId |-> 0,
                     service |-> "", status |-> 400,
                     msg |-> "Latitude and longitude are required", prev |-> NULL,
                     dist |-> dist, radiusKm |-> searchRadius(radius),
                     barbers |-> <<>>]
       ELSE \E res \in getBarbersNearby(dist, searchRadius(radius)) :
               last' = [op |-> "getBarbersNearby", userId |-> 0, barberId |-> 0,
                        service |-> "", status |-> 200, msg |-> "Found barbers",
                        prev |-> NULL, dist |-> dist,
                        radiusKm |-> searchRadius(radius), barbers |-> res]
    /\ UNCHANGED <<queue, users, nextId, pc, req, tx, lastCommit>>

NearbyNext ==
    \E p \in Procs, coords \in BOOLEAN, dist \in [Barbers -> Distances],
       radius \in RadiusInputs : PostBarbers(p, coords, dist, radius)

NearbySpec == Init /\ [][NearbyNext]_vars

(***************************************************************************)
(* Every request of the server, the reads too, one request at a time on a  *)
(* filled table of two customers.  A proximity search is given by barbers  *)
(* that are at the point it names or MaxDistance away from it.             *)
(***************************************************************************)
ServerUsers == {1, 2}
ServerInstants == {0, 1}

ServerInit == FilledInit(ServerUsers, ServerInstants)

ReadNext ==
    \/ \E p \in Procs, u \in Users : GetQueueStatus(p, u)
    \/ \E p \in Procs, b \in BarberInputs \ {0} : GetQueue(p, b)
    \/ \E p \in Procs, coords \in BOOLEAN, dist \in [Barbers -> {0, MaxDistance}],
          radius \in RadiusInputs : PostBarbers(p, coords, dist, radius)

ServerNext == SeqNext \/ ReadNext

ServerSpec == ServerInit /\ [][ServerNext]_vars

(***************************************************************************)
(* Properties.                                                             *)
(***************************************************************************)
IsSuccess(r) == r.status = 200 \/ r.msg = "Successfully removed"
IsError(r) ==
    r.msg \in {"Failed to join queue", "Failed to remove from queue",
               "Failed to remove user from queue"}

\* C1: in every reachable state a customer owns at most one Queue row,
\* whatever way the statements of concurrent joinQueue calls interleave.
Uniqueness == \A u \in Users : Cardinality(RowsOfUser(u)) <= 1

\* a join whose deleteMany found nothing is about to insert, and a join that
\* ran concurrently has committed a row of the same customer meanwhile
UniquenessRace ==
    \E p \in Procs :
        /\ pc[p] = "join_create"
        /\ tx[p].del = {}
        /\ Cardinality(RowsOfUser(req[p].userId)) = 1

\* C2: in every committed state inQueue holds exactly of the customers that
\* own exactly one Queue row, and queuedBarberId is the barber of that row,
\* null without a row.
MembershipMirror ==
    \A u \in Users :
        /\ users[u].inQueue <=> Cardinality(RowsOfUser(u)) = 1
        /\ \A e \in RowsOfUser(u) : users[u].queuedBarberId = e.barberId
        /\ RowsOfUser(u) = {} => users[u].queuedBarberId = NULL

\* the customer joined again while a leave or a removal that had looked the
\* old row up was still on its way
MirrorAfterRace ==
    \E p \in Procs :
        /\ pc[p] \in {"leave_delete", "remove_delete"}
        /\ lastCommit[req[p].userId] = "join"
        /\ users[req[p].userId].inQueue
        /\ \A e \in RowsOfUser(req[p].userId) : e.id # req[p].found

\* C3: the committed state changes only by the commit of a whole
\* transaction, which applies all of its writes to the one customer it is
\* about, and a call that ends in an error leaves the committed state as it
\* was and gives up its transaction.
Atomicity ==
    [][/\ (queue' # queue \/ users' # users) =>
            /\ IsSuccess(last')
            /\ \A v \in Users \ {last'.userId} :
                  /\ users'[v] = users[v]
                  /\ {e \in queue' : e.userId = v} = RowsOfUser(v)
            /\ IF last'.op = "joinQueue"
               THEN /\ users'[last'.userId] =
                          [inQueue |-> TRUE, queuedBarberId |-> last'.barberId]
                    /\ \E e \in queue' \ queue :
                          /\ e.barberId = last'.barberId
                          /\ {x \in queue' : x.userId = last'.userId} = {e}
               ELSE /\ users'[last'.userId] =
                          [inQueue |-> FALSE, queuedBarberId |-> NULL]
                    /\ {x \in queue' : x.userId = last'.userId} = {}
       /\ IsError(last') =>
            /\ queue' = queue /\ users' = users
            /\ \E p \in Procs : /\ InTransaction(p) \/ pc[p] = "idle"
                                /\ pc'[p] = "idle" /\ tx'[p] = NoTx
                                /\ \A q \in Procs \ {p} : tx'[q] = tx[q]
      ]_vars

\* a join that had deleted the customer's row failed, and the row is there
RolledBackJoin ==
    /\ last.op = "joinQueue"
    /\ IsError(last)
    /\ last.prev # NULL
    /\ \E e \in RowsOfUser(last.userId) : e.barberId = last.prev
    /\ users[last.userId].inQueue

\* C4: when a joinQueue commits, the only row of the customer is the row
\* that this join inserted (its barberId and enteredAt), also when another
\* joinQueue of the same customer runs concurrently: the join that commits
\* last wins.
LastWriterWins ==
    [][\A p \in Procs :
          JoinMarkUser(p) =>
              /\ {e \in queue' : e.userId = req[p].userId} = tx[p].ins
              /\ \A e \in tx[p].ins : e.barberId = req[p].barberId
      ]_vars

\* a join committed while another join of the same customer, which had
\* already run its deleteMany, was in its transaction
ConcurrentJoinCommitted ==
    /\ last.op = "joinQueue"
    /\ last.status = 200
    /\ \E p \in Procs :
          /\ pc[p] \in {"join_resetUser", "join_create"}
          /\ req[p].userId = last.userId

\* C5: a joinQueue whose barberId references no barber fails with a
\* not-found outcome (the message "Barber not found"), and the Queue rows and
\* the customers' flags are as they were.
UnknownBarberNotFound ==
    [][\A p \in Procs, u \in UserInputs, b \in BarberInputs \ (Barbers \cup {0}),
          s \in validServices :
          PostJoinQueue(p, u, b, s) =>
              /\ last'.msg = "Barber not found"
              /\ queue' = queue /\ users' = users
      ]_vars

\* C6: a join whose service is not one of haircut, beard, haircut+beard is
\* answered 400 by the checks of the route ("Invalid service type" when the
\* body has a service), before joinQueue is called: the step that answers
\* changes no Queue row, no customer flag and no request slot and begins no
\* transaction, also when the customer owns a row, and no request slot ever
\* runs joinQueue for such a service.
InvalidServiceRejected ==
    [][/\ \A p \in Procs :
              req'[p].op = "joinQueue" => req'[p].service \in validServices
       /\ (last'.op = "joinQueue" /\ last'.service \notin validServices) =>
              /\ last'.status = 400
              /\ last'.msg \in {"Barber ID is required", "Service type is required",
                                "Invalid service type"}
              /\ last'.service # "" =>
                    last'.msg \in {"Barber ID is required", "Invalid service type"}
              /\ UNCHANGED <<queue, users, nextId, pc, req, tx>>
      ]_vars

\* an invalid service was rejected for a customer who owns a row
InvalidServiceWhileQueued ==
    /\ last.op = "joinQueue"
    /\ last.status = 400
    /\ last.msg = "Invalid service type"
    /\ last.userId \in Users
    /\ RowsOfUser(last.userId) # {}
    /\ users[last.userId].inQueue

\* C7: right after a customer who was queued at barber X has joined barber Y
\* (X # Y), getUserQueueStatus reports the customer in queue at Y, no list
\* getQueue returns for another barber holds the customer, and every list
\* getQueue returns for Y holds the customer exactly once.
RejoinMovesMembership ==
    (last.op = "joinQueue" /\ last.status = 200 /\ last.prev # NULL
        /\ last.prev # last.barberId) =>
      LET u == last.userId
          Y == last.barberId
      IN /\ getUserQueueStatus(u).inQueue
         /\ getUserQueueStatus(u).barber = Y
         /\ \A X \in Barbers \ {Y} : \A q \in getQueue(X) :
               \A i \in DOMAIN q : q[i].userId # u
         /\ \A q \in getQueue(Y) :
               Cardinality({i \in DOMAIN q : q[i].userId = u}) = 1

\* the customer has moved from one barber to another
MovedToOtherBarber ==
    /\ last.op = "joinQueue"
    /\ last.status = 200
    /\ last.prev \in Barbers \ {last.barberId}
    /\ RowsOfBarber(last.barberId) # {}

\* C8: a removeFromQueue that commits answers success and leaves the
\* customer without a row and with cleared flags; a removeFromQueue that
\* follows a committed one of the same customer, with no join committed in
\* between, answers the not-in-queue result (400, not an error) and changes
\* nothing.
IdempotentLeave ==
    [][/\ \A p \in Procs : LeaveUpdate(p) =>
              /\ last'.status = 200
              /\ {e \in queue' : e.userId = req[p].userId} = {}
              /\ users'[req[p].userId] = [inQueue |-> FALSE, queuedBarberId |-> NULL]
       /\ \A p \in Procs, u \in Users :
              (lastCommit[u] = "leave" /\ PostLeaveQueue(p, u)) =>
                  /\ last' = Response("removeFromQueue", u, NULL, "", 400,
                                      "User is not in any queue", NULL)
                  /\ UNCHANGED <<queue, users, pc, req, tx, lastCommit>>
      ]_vars

\* the second leave in a row has been answered
SecondLeaveAnswered ==
    /\ last.op = "removeFromQueue"
    /\ last.status = 400
    /\ last.userId \in Users
    /\ lastCommit[last.userId] = "leave"

\* C9: a removeFromQueue whose delete runs when the customer has no row is
\* answered with the not-in-queue result and not with an error, also when
\* the row went away between its lookup and its delete.
LeaveRaceBenign ==
    [][\A p \in Procs :
          (pc[p] = "leave_delete" /\ RowsOfUser(req[p].userId) = {}
              /\ LeaveDelete(p)) =>
              /\ last'.status = 400
              /\ last'.msg = "User is not in any queue"
      ]_vars

\* C10: removeUserFromQueue(barberId, userId) answers the failure result and
\* changes nothing when the customer has no row at that barber (no row at
\* all, or a row at another barber), and the rows its transaction removes
\* are rows of that customer at that barber.
RemoveOnlyOwnEntry ==
    [][/\ \A p \in Procs, b \in Barbers, u \in Users :
              ((~\E e \in queue : e.userId = u /\ e.barberId = b)
                  /\ RemoveUserFromQueue(p, b, u)) =>
                  /\ last'.msg = "User is not in this barber's queue"
                  /\ ~IsSuccess(last')
                  /\ UNCHANGED <<queue, users, pc, req, tx>>
       /\ \A p \in Procs : RemoveUpdate(p) =>
              \A e \in queue \ queue' :
                  e.barberId = req[p].barberId /\ e.userId = req[p].userId
      ]_vars

\* a barber was refused the removal of a customer queued at another barber
RemovalRefusedOtherBarber ==
    /\ last.op = "removeUserFromQueue"
    /\ last.msg = "User is not in this barber's queue"
    /\ \E e \in RowsOfUser(last.userId) : e.barberId # last.barberId

\* C11: for a customer in queue the position getUserQueueStatus returns is
\* 1 + the number of rows of the same barber that precede the customer's
\* row, a row preceding when its enteredAt is earlier, or equal with a
\* smaller id; so two rows of one barber never get the same position.
PositionTieBreak ==
    \A u \in Users :
        getUserQueueStatus(u).inQueue =>
            \A own \in RowsOfUser(u) :
                getUserQueueStatus(u).position =
                    1 + Cardinality({e \in RowsOfBarber(own.barberId) :
                                        \/ e.enteredAt < own.enteredAt
                                        \/ /\ e.enteredAt = own.enteredAt
                                           /\ e.id < own.id})

\* C12: in the state right after a joinQueue has committed, the position of
\* the customer who joined is the number of rows of the barber joined (the
\* customer is at the back of the line).
JoinAtBack ==
    (last.op = "joinQueue" /\ last.status = 200) =>
        getUserQueueStatus(last.userId).position =
            Cardinality(RowsOfBarber(last.barberId))

\* C13: every answer of getUserQueueStatus for a customer in queue carries
\* estimatedWait = (position - 1) * 15: 0 at position 1, 45 at position 4.
WaitLinearity ==
    (last.op = "getUserQueueStatus" /\ last.queueStatus.inQueue) =>
        last.queueStatus.estimatedWait = (last.queueStatus.position - 1) * 15

\* a customer with three customers ahead was told to wait 45 minutes
WaitAtPositionFour ==
    /\ last.op = "getUserQueueStatus"
    /\ last.queueStatus.inQueue
    /\ last.queueStatus.position = 4
    /\ last.queueStatus.estimatedWait = 45

\* C14: every list getQueue(barberId) returns holds exactly the rows of that
\* barber, each once, in non-decreasing enteredAt order, and rows with equal
\* enteredAt in increasing id order.
OrderStability ==
    (last.op = "getQueue" /\ last.barberId \in Barbers) =>
        LET q == last.entries
        IN /\ {q[i] : i \in DOMAIN q} = RowsOfBarber(last.barberId)
           /\ Len(q) = Cardinality(RowsOfBarber(last.barberId))
           /\ \A i, j \in DOMAIN q :
                 i < j => \/ q[i].enteredAt < q[j].enteredAt
                          \/ /\ q[i].enteredAt = q[j].enteredAt
                             /\ q[i].id < q[j].id

StatusMatchesEntry ==
    \A u \in Users :
        /\ getUserQueueStatus(u).inQueue <=> RowsOfUser(u) # {}
        /\ RowsOfUser(u) = {} => getUserQueueStatus(u) = NotInQueueStatus
        /\ \A e \in RowsOfUser(u) :
              /\ getUserQueueStatus(u).position >= 1
              /\ getUserQueueStatus(u).barber = e.barberId

\* one customer is read in queue while a join of theirs, which has deleted
\* the row in its open transaction, is under way; another has left and is
\* read out of queue
StatusDuringRejoin ==
    /\ \E p \in Procs :
          /\ pc[p] \in {"join_resetUser", "join_create", "join_markUser"}
          /\ tx[p].del # {}
          /\ getUserQueueStatus(req[p].userId).inQueue
    /\ \E u \in Users :
          /\ lastCommit[u] \in {"leave", "remove"}
          /\ ~getUserQueueStatus(u).inQueue

\* C17: however a removeFromQueue or removeUserFromQueue interleaves with a
\* joinQueue of the same customer, the committed state of the customer is
\* the outcome of the operations that committed, in the order of their
\* commits: a row enters the table only as the insert of the join that
\* commits in that step, it is then the customer's only row and no row that
\* a lookup or a delete under way has seen (a deleted row does not come
\* back); a leave or removal that commits leaves the customer without a row
\* and with cleared flags, whatever its lookup saw; and the customers with
\* a row are those whose latest committed operation is a join.
NoStaleResurrection ==
    [][/\ \A e \in queue' \ queue :
              /\ \E p \in Procs :
                    pc[p] = "join_markUser" /\ tx[p].ins = {e} /\ pc'[p] = "idle"
              /\ \A q \in Procs : e.id # req[q].found /\ e.id \notin tx[q].del
              /\ {x \in queue' : x.userId = e.userId} = {e}
       /\ (last'.op \in {"removeFromQueue", "removeUserFromQueue"}
              /\ IsSuccess(last')) =>
              /\ {x \in queue' : x.userId = last'.userId} = {}
              /\ users'[last'.userId] = [inQueue |-> FALSE, queuedBarberId |-> NULL]
       /\ \A u \in Users :
              /\ lastCommit'[u] = "join" =>
                    Cardinality({x \in queue' : x.userId = u}) = 1
              /\ lastCommit'[u] # "join" => {x \in queue' : x.userId = u} = {}
      ]_vars

\* a leave has committed whose lookup saw the customer's row at one barber
\* and whose delete removed the row that a join to another barber had
\* committed in between; the customer is out of queue
LeaveAfterInterleavedJoin ==
    /\ last.op = "removeFromQueue"
    /\ last.status = 200
    /\ last.prev # last.barberId
    /\ RowsOfUser(last.userId) = {}
    /\ ~users[last.userId].inQueue

\* C18: whenever removeFromQueue answers success, the barber it names is the
\* barber of the row that its transaction deleted.
LeaveReportsDeletedBarber ==
    (last.op = "removeFromQueue" /\ last.status = 200) =>
        last.barberId = last.prev

\* C19: the answer to a joinQueue for a barber that does not exist is not a
\* success and differs from the answer to a joinQueue whose transaction
\* failed and from the answer to an invalid service, so that the caller can
\* tell the failure that may be retried from the ones that may not.
ErrorsDistinguishable ==
    [][\A p \in Procs, u \in UserInputs, b \in BarberInputs \ (Barbers \cup {0}),
          s \in validServices :
          PostJoinQueue(p, u, b, s) =>
              /\ ~IsSuccess(last')
              /\ <<last'.status, last'.msg>> \notin
                    {<<500, JoinCatch("Unique constraint failed")>>,
                     <<500, JoinCatch("store")>>,
                     <<400, "Invalid service type">>}
      ]_vars

\* C20: the list getBarbersNearby returns for radius r holds every barber
\* whose distance is at most r and no barber whose distance exceeds r, and
\* is in non-decreasing order of that distance.
NearbyWithinRadius ==
    (last.op = "getBarbersNearby" /\ last.status = 200) =>
        LET res == last.barbers
        IN /\ {res[i].id : i \in DOMAIN res} =
                 {b \in Barbers : last.dist[b] <= last.radiusKm}
           /\ \A i, j \in DOMAIN res :
                 i < j => last.dist[res[i].id] <= last.dist[res[j].id]

\* C21: every barber in a list that getBarbersNearby returns carries
\* queueLength = the number of Queue rows of that barber in the state read.
QueueLengthIsLive ==
    (last.op = "getBarbersNearby" /\ last.status = 200) =>
        \A i \in DOMAIN last.barbers :
            last.barbers[i].queueLength =
                Cardinality(RowsOfBarber(last.barbers[i].id))

\* a search has returned a barber with two customers and a barber with none
LoadedAndIdleBarber ==
    /\ last.op = "getBarbersNearby"
    /\ last.status = 200
    /\ \E i, j \in DOMAIN last.barbers :
          /\ last.barbers[i].queueLength = 2
          /\ last.barbers[j].queueLength = 0

\* C22: when a customer who is in barber B's line, with customers behind,
\* joins B again and the join commits, the customer's new position is the
\* number of rows of B (the back of the line) and every customer who was
\* behind has moved up by one.
RejoinGoesToBack ==
    [][\A p \in Procs, c \in Users, B \in Barbers :
          (/\ pc[p] = "join_markUser"
           /\ req[p].userId = c
           /\ req[p].barberId = B
           /\ PrevBarber(p) = B
           /\ \E v \in Users \ {c} :
                 /\ getUserQueueStatus(v).inQueue
                 /\ getUserQueueStatus(v).barber = B
                 /\ getUserQueueStatus(v).position > getUserQueueStatus(c).position
           /\ JoinMarkUser(p)) =>
              /\ getUserQueueStatus(c)'.position =
                    Cardinality({e \in queue' : e.barberId = B})
              /\ \A v \in Users \ {c} :
                    (/\ getUserQueueStatus(v).inQueue
                     /\ getUserQueueStatus(v).barber = B
                     /\ getUserQueueStatus(v).position >
                           getUserQueueStatus(c).position) =>
                        getUserQueueStatus(v)'.position =
                            getUserQueueStatus(v).position - 1
      ]_vars

\* C23: a Queue row keeps its barberId, userId, service and
\* enteredAt for as long as its id is in the table, and a row that enters
\* the table for a customer who has a row replaces that row and has a new id
\* and a later enteredAt.
ReplacedByLaterEntry ==
    [][/\ \A e \in queue : \A f \in queue' : e.id = f.id => e = f
       /\ \A f \in queue' \ queue : \A e \in RowsOfUser(f.userId) :
              /\ e \notin queue'
              /\ f.id # e.id
              /\ f.enteredAt > e.enteredAt
      ]_vars

ReadOps == {"getUserQueueStatus", "getQueue", "getBarbersNearby"}
WriteOps == {"joinQueue", "removeFromQueue", "removeUserFromQueue"}

\* C24: a step that answers getUserQueueStatus, getQueue or getBarbersNearby,
\* with a result or with an error, leaves the Queue table and every
\* customer's inQueue/queuedBarberId as they were, and every step that
\* changes a customer's flags is the successful answer of joinQueue,
\* removeFromQueue or removeUserFromQueue.
ReadsAreReadOnly ==
    [][/\ last'.op \in ReadOps => UNCHANGED <<queue, users, nextId, tx>>
       /\ users' # users => last'.op \in WriteOps /\ IsSuccess(last')
      ]_vars

\* a read has failed while customers are waiting
FailedReadWhileQueued ==
    /\ last.op \in {"getQueue", "getBarbersNearby"}
    /\ last.status = 400 \/ last.msg = "Failed to get queue"
    /\ \E u \in Users : users[u].inQueue /\ RowsOfUser(u) # {}

\* C25: in every committed state, for every barber with n Queue rows, the
\* positions getUserQueueStatus computes for the n customers are exactly
\* 1..n, none repeated, and the customer at position k is the k-th element
\* of every list getQueue can return for that barber.
PositionsArePermutation ==
    \A b \in Barbers :
        LET n == Cardinality(RowsOfBarber(b))
        IN /\ {getUserQueueStatus(e.userId).position : e \in RowsOfBarber(b)} = 1..n
           /\ \A q \in getQueue(b) : \A k \in 1..n :
                 getUserQueueStatus(q[k].userId).position = k

\* C26: for a customer whose Queue row is the same before and after a step
\* (no leave, removal or join of that customer commits in the step), the
\* position getUserQueueStatus computes after the step is less than or equal
\* to the position it computes before, whatever the step commits for other
\* customers.
PositionNeverIncreases ==
    [][\A v \in Users :
          (/\ getUserQueueStatus(v).inQueue
           /\ RowsOfUser(v)' = RowsOfUser(v)
           /\ getUserQueueStatus(v)'.inQueue) =>
              getUserQueueStatus(v)'.position <= getUserQueueStatus(v).position
      ]_vars

\* C27: when removeUserFromQueue(X, c) has found c's entry at X and that
\* entry is gone by the time its transaction runs because a joinQueue of c
\* has committed in between, the removal answers with its error, deletes
\* nothing, and c's new entry survives with c's inQueue/queuedBarberId
\* pointing to its barber.
RemovalSparesNewEntry ==
    [][\A p \in Procs, c \in Users :
          (/\ pc[p] = "remove_delete"
           /\ req[p].userId = c
           /\ \A e \in queue : e.id # req[p].found
           /\ RowsOfUser(c) # {}
           /\ RemoveDelete(p)) =>
              /\ last'.op = "removeUserFromQueue"
              /\ last'.msg = "Failed to remove user from queue"
              /\ ~IsSuccess(last')
              /\ pc'[p] = "idle"
              /\ queue' = queue
              /\ users' = users
              /\ \A e \in RowsOfUser(c)' :
                    users'[c].inQueue /\ users'[c].queuedBarberId = e.barberId
      ]_vars

\* barber X's removal of a customer has failed and the customer's entry at
\* another barber Y is in the table, with the flags pointing to Y
RemovalFailedAfterMove ==
    /\ last.op = "removeUserFromQueue"
    /\ last.msg = "Failed to remove user from queue"
    /\ last.userId \in Users
    /\ \E e \in RowsOfUser(last.userId) :
          /\ e.barberId # last.barberId
          /\ users[last.userId].inQueue
          /\ users[last.userId].queuedBarberId = e.barberId

\* C28: a joinQueue whose userId names no customer fails at the update of
\* the customer's flags inside the transaction: the call answers 500
\* "Failed to join queue", nothing of the transaction is kept, the Queue
\* table and the flags are unchanged, and no Queue row, committed or
\* pending, ever carries a userId that names no customer.
UnknownUserCreatesNoEntry ==
    [][/\ \A p \in Procs :
             (/\ pc[p] = "join_resetUser"
              /\ req[p].userId \notin Users
              /\ JoinResetUser(p)) =>
                 /\ last'.op = "joinQueue"
                 /\ last'.status = 500
                 /\ last'.msg = "Failed to join queue"
                 /\ pc'[p] = "idle"
                 /\ tx'[p] = NoTx
                 /\ queue' = queue
                 /\ users' = users
       /\ \A e \in Written' : e.userId \in Users
      ]_vars

\* the join of an unknown customer has failed while a customer is waiting
UnknownUserJoinFailed ==
    /\ last.op = "joinQueue"
    /\ last.userId \notin Users
    /\ last.status = 500
    /\ last.msg = "Failed to join queue"
    /\ queue # {}

\* C29: when a customer's joinQueue to barber B commits with no other
\* operation since the state in which getBarbersNearby reports estimatedWait
\* w for B, the estimatedWait getUserQueueStatus returns for the customer
\* after the join equals w, whether or not the customer was in B's line
\* before.
AdvertisedWaitIsExperienced ==
    [][\A p \in Procs, c \in Users, B \in Barbers :
          (/\ pc[p] = "join_markUser"
           /\ req[p].userId = c
           /\ req[p].barberId = B
           /\ JoinMarkUser(p)) =>
              getUserQueueStatus(c)'.estimatedWait =
                  BarberWithDistance(B, [b \in Barbers |-> 0]).estimatedWait
      ]_vars
====
